---- MODULE Spec2Model ----
(***************************************************************************)
(* Voxel world of html5/minecraft-tynker: chunked block storage, terrain   *)
(* generation, face-culling section meshes (js/world.js), the player's     *)
(* kinematic step and raycast (js/player.js) and the start-up and click    *)
(* handlers (js/main.js).                                                  *)
(*                                                                         *)
(* Representation.  A section's Uint8Array(4096) is a finite map from the  *)
(* indices holding a non-zero kind to that kind; an index outside the map  *)
(* reads 0, as in the zero-filled array.  section.mesh is null (FALSE) or  *)
(* true (TRUE).  A GPU buffer handle is its 1-based creation number and    *)
(* glBuffers[h] is the data uploaded to it; handle 0 is null.  The data    *)
(* of a buffer is the set of quads pushed, each quad standing for the 36   *)
(* floats makeFace returns for it.                                         *)
(***************************************************************************)
EXTENDS Integers, FiniteSets, Sequences, TLC

VARIABLES chunks, glBuffers, player, ui, boot, last, count, hist

vars == <<chunks, glBuffers, player, ui, boot, last, count, hist>>

(***************************************************************************)
(* Constants of world.js                                                   *)
(***************************************************************************)
CHUNK_SIZE == 16
SECTION_HEIGHT == 16
WORLD_HEIGHT == 128

AIR == 0
DIRT == 1
GRASS == 2
STONE == 3
WOOD == 4
PLANKS == 5
SAND == 6
WATER == 7
LEAVES == 8
GLASS == 9

\* BlockNames[id]; an id without an entry reads undefined
BlockNames(id) ==
  CASE id = 0 -> "air"
    [] id = 1 -> "dirt"
    [] id = 2 -> "grass"
    [] id = 3 -> "stone"
    [] id = 4 -> "wood"
    [] id = 5 -> "planks"
    [] id = 6 -> "sand"
    [] id = 7 -> "water"
    [] id = 8 -> "leaves"
    [] id = 9 -> "glass"
    [] OTHER -> "undefined"

(***************************************************************************)
(* JavaScript integer arithmetic                                           *)
(***************************************************************************)
\* a & 15 on two's-complement integers: the four low bits of a, which for
\* negative a too is the remainder of the division by 16 that rounds down
\* (-1 & 15 = 15, -16 & 15 = 0, -17 & 15 = 15)
And15(a) == a % 16

\* Math.floor(a / b) for integers a and b > 0
FloorDiv(a, b) == a \div b

\* the value a Uint8Array cell keeps of an integer written to it
ToUint8(v) == v % 256

(***************************************************************************)
(* Chunk storage                                                           *)
(***************************************************************************)
NumSections == WORLD_HEIGHT \div SECTION_HEIGHT

createSection ==
  [blocks |-> << >>, mesh |-> FALSE, vertexBuffer |-> 0, vertexCount |-> 0]

createChunk == [i \in 0..(NumSections - 1) |-> createSection]

\* the key "cx,cz"
ChunkKey(cx, cz) == <<cx, cz>>

\* a getChunk that stores a new chunk on every call
getChunkFresh(ch, cx, cz) == (ChunkKey(cx, cz) :> createChunk) @@ ch

\* World.getChunk: the chunk map after the call
getChunk(ch, cx, cz) ==
  IF ChunkKey(cx, cz) \in DOMAIN ch THEN ch
  ELSE ch @@ (ChunkKey(cx, cz) :> createChunk)

\* World.getChunk: the chunk returned
chunkAt(ch, cx, cz) ==
  IF ChunkKey(cx, cz) \in DOMAIN ch THEN ch[ChunkKey(cx, cz)] ELSE createChunk

\* section.blocks[idx]
ReadCell(blocks, idx) == IF idx \in DOMAIN blocks THEN blocks[idx] ELSE 0

\* section.blocks[idx] = v
WriteCell(blocks, idx, v) ==
  IF ToUint8(v) = 0
  THEN [i \in (DOMAIN blocks) \ {idx} |-> blocks[i]]
  ELSE [i \in (DOMAIN blocks) \cup {idx} |-> IF i = idx THEN ToUint8(v) ELSE blocks[i]]

\* the index computed by getBlock
getBlockIdx(x, y, z) ==
  And15(x) + (And15(y) * CHUNK_SIZE)
    + (And15(z) * CHUNK_SIZE * SECTION_HEIGHT)

\* a getBlock for which the levels below the world are solid
getBlockBedrock(ch, x, y, z) ==
  IF y < 0 THEN STONE
  ELSE IF y >= WORLD_HEIGHT THEN AIR
  ELSE LET cx == FloorDiv(x, CHUNK_SIZE)
           cz == FloorDiv(z, CHUNK_SIZE)
           sectionIndex == FloorDiv(y, SECTION_HEIGHT)
       IN  ReadCell(chunkAt(ch, cx, cz)[sectionIndex].blocks, getBlockIdx(x, y, z))

\* World.getBlock: the value returned
getBlock(ch, x, y, z) ==
  IF y < 0 \/ y >= WORLD_HEIGHT THEN AIR
  ELSE LET cx == FloorDiv(x, CHUNK_SIZE)
           cz == FloorDiv(z, CHUNK_SIZE)
           sectionIndex == FloorDiv(y, SECTION_HEIGHT)
       IN  ReadCell(chunkAt(ch, cx, cz)[sectionIndex].blocks, getBlockIdx(x, y, z))

\* World.getBlock: the chunk map after the call
getBlockChunks(ch, x, y, z) ==
  IF y < 0 \/ y >= WORLD_HEIGHT THEN ch
  ELSE getChunk(ch, FloorDiv(x, CHUNK_SIZE), FloorDiv(z, CHUNK_SIZE))

\* an index whose z term lacks the factor SECTION_HEIGHT
setBlockIdxFlat(x, y, z) ==
  And15(x) + (And15(y) * CHUNK_SIZE) + (And15(z) * CHUNK_SIZE)

\* the index computed by setBlock
setBlockIdx(x, y, z) ==
  And15(x) + (And15(y) * CHUNK_SIZE)
    + (And15(z) * CHUNK_SIZE * SECTION_HEIGHT)

\* a division that rounds toward zero in place of Math.floor
setBlockChunkTrunc(x) ==
  IF x < 0 THEN -((-x) \div CHUNK_SIZE) ELSE x \div CHUNK_SIZE

\* the chunk coordinate computed by setBlock
setBlockChunk(x) == FloorDiv(x, CHUNK_SIZE)

\* World.setBlock: the chunk map after the call
setBlock(ch, x, y, z, block) ==
  IF y < 0 \/ y >= WORLD_HEIGHT THEN ch
  ELSE LET cx == setBlockChunk(x)
           cz == setBlockChunk(z)
           c1 == getChunk(ch, cx, cz)
           sectionIndex == FloorDiv(y, SECTION_HEIGHT)
           idx == setBlockIdx(x, y, z)
       IN  [c1 EXCEPT ![ChunkKey(cx, cz)][sectionIndex] =
             [@ EXCEPT !.blocks = WriteCell(@, idx, block), !.mesh = FALSE]]

(***************************************************************************)
(* Terrain generation                                                      *)
(***************************************************************************)
\* the height of generateChunk
height == 32

\* a terrain with one layer of dirt
terrainBlockThin(y) ==
  IF y = height THEN GRASS
  ELSE IF y = height - 1 THEN DIRT
  ELSE IF y < height - 1 THEN STONE
  ELSE AIR

\* the block generateChunk picks at level y
terrainBlock(y) ==
  IF y = height THEN GRASS
  ELSE IF y < height /\ y > height - 3 THEN DIRT
  ELSE IF y < height - 3 THEN STONE
  ELSE AIR

\* section.blocks of section s of a chunk after generateChunk has run its
\* first n levels of that section: at level y = 16 s + n - 1 the x and z loops
\* call setBlock(wx, y, wz, block) for the columns cols that land in the
\* chunk.  The calls of one level write one kind, so they are applied together.
RECURSIVE writeLevels(_, _, _, _)
writeLevels(blocks, cols, s, n) ==
  IF n = 0 THEN blocks
  ELSE LET y == s * SECTION_HEIGHT + n - 1
           block == terrainBlock(y)
           before == writeLevels(blocks, cols, s, n - 1)
           idxs == { setBlockIdx(c[1], y, c[2]) : c \in cols }
       IN  IF ToUint8(block) = 0
           THEN IF (DOMAIN before) \cap idxs = {} THEN before
                ELSE [i \in (DOMAIN before) \ idxs |-> before[i]]
           ELSE [i \in idxs |-> ToUint8(block)] @@ before

\* the sections of a chunk from section s on, after generateChunk has written
\* the columns cols that land in the chunk
RECURSIVE generateSections(_, _, _)
generateSections(chunk, cols, s) ==
  IF s >= NumSections THEN chunk
  ELSE generateSections(
         [chunk EXCEPT ![s] = [@ EXCEPT !.blocks = writeLevels(@, cols, s, SECTION_HEIGHT),
                                        !.mesh = FALSE]],
         cols, s + 1)

\* the chunks with the keys that the setBlock calls of generateChunk reach
RECURSIVE generateKeys(_, _, _)
generateKeys(ch, keys, cols) ==
  IF keys = {} THEN ch
  ELSE LET k == CHOOSE q \in keys : TRUE
           colsK == { c \in cols :
                        ChunkKey(setBlockChunk(c[1]), setBlockChunk(c[2])) = k }
       IN  generateKeys([getChunk(ch, k[1], k[2]) EXCEPT
                           ![k] = generateSections(@, colsK, 0)],
                        keys \ {k}, cols)

\* World.generateChunk(cx, cz): the chunk map after the call.  A setBlock at
\* level y touches section floor(y / 16) of its chunk only, so the loop over y
\* is folded section by section; every level 0..127 passes setBlock's range
\* test.
generateChunk(ch, cx, cz) ==
  LET cols == { <<cx * CHUNK_SIZE + x, cz * CHUNK_SIZE + z>> :
                  x \in 0..(CHUNK_SIZE - 1), z \in 0..(CHUNK_SIZE - 1) }
      keys == { ChunkKey(setBlockChunk(c[1]), setBlockChunk(c[2])) : c \in cols }
  IN  generateKeys(getChunk(ch, cx, cz), keys, cols)

(***************************************************************************)
(* Texture lookup (textures.js) and makeFace.  A texture coordinate is     *)
(* kept in atlas pixels, that is, multiplied by atlasSize.                 *)
(***************************************************************************)
tileSize == 16
atlasSize == 16 * 16

\* textureMap[name][face], the tile [tx, ty]; << >> when the name has no entry
textureMap(name, face) ==
  CASE name = "dirt" -> <<2, 0>>
    [] name = "grass" -> (IF face = "top" THEN <<0, 0>>
                          ELSE IF face = "side" THEN <<1, 0>> ELSE <<2, 0>>)
    [] name = "stone" -> <<3, 0>>
    [] name = "wood" -> <<4, 0>>
    [] name = "planks" -> <<5, 0>>
    [] name = "sand" -> <<6, 0>>
    [] name = "water" -> <<7, 0>>
    [] name = "leaves" -> <<8, 0>>
    [] name = "glass" -> <<9, 0>>
    [] OTHER -> << >>

\* Textures.getUV(blockId, face), times atlasSize
getUV(blockId, face) ==
  LET map == textureMap(blockId, face) IN
  IF map = << >> THEN <<0, 0, atlasSize, 0, atlasSize, atlasSize, 0, atlasSize>>
  ELSE LET tx == map[1]
           ty == map[2]
           u0 == tx * tileSize
           v0 == ty * tileSize
           u1 == tx * tileSize + tileSize
           v1 == ty * tileSize + tileSize
       IN  <<u0, v0, u1, v0, u1, v1, u0, v1>>

\* makeFace(face, x, y, z, uv): 6 vertices of [x, y, z, u, v, shadow]
makeFace(face, x, y, z, uv) ==
  LET s == 1
      u0 == uv[1]
      v0 == uv[2]
      u1 == uv[3]
      v1 == uv[4]
  IN  CASE face = "top" ->
             <<x, y+s, z, u0, v1, 1,      x+s, y+s, z, u1, v1, 1,
               x+s, y+s, z+s, u1, v0, 1,  x, y+s, z, u0, v1, 1,
               x+s, y+s, z+s, u1, v0, 1,  x, y+s, z+s, u0, v0, 1>>
        [] face = "bottom" ->
             <<x, y, z, u0, v1, 1,        x+s, y, z+s, u1, v0, 1,
               x+s, y, z, u1, v1, 1,      x, y, z, u0, v1, 1,
               x, y, z+s, u0, v0, 1,      x+s, y, z+s, u1, v0, 1>>
        [] face = "north" ->
             <<x, y, z, u0, v1, 1,        x+s, y+s, z, u1, v0, 1,
               x+s, y, z, u1, v1, 1,      x, y, z, u0, v1, 1,
               x, y+s, z, u0, v0, 1,      x+s, y+s, z, u1, v0, 1>>
        [] face = "south" ->
             <<x, y, z+s, u0, v1, 1,      x+s, y, z+s, u1, v1, 1,
               x+s, y+s, z+s, u1, v0, 1,  x, y, z+s, u0, v1, 1,
               x+s, y+s, z+s, u1, v0, 1,  x, y+s, z+s, u0, v0, 1>>
        [] face = "west" ->
             <<x, y, z, u0, v1, 1,        x, y+s, z+s, u1, v0, 1,
               x, y, z+s, u1, v1, 1,      x, y, z, u0, v1, 1,
               x, y+s, z, u0, v0, 1,      x, y+s, z+s, u1, v0, 1>>
        [] face = "east" ->
             <<x+s, y, z, u0, v1, 1,      x+s, y, z+s, u1, v1, 1,
               x+s, y+s, z+s, u1, v0, 1,  x+s, y, z, u0, v1, 1,
               x+s, y+s, z+s, u1, v0, 1,  x+s, y+s, z, u0, v0, 1>>

(***************************************************************************)
(* Section meshes                                                          *)
(***************************************************************************)
\* the faces table of buildSectionMesh: [face, ox, oy, oz]
faces ==
  << <<"top", 0, 1, 0>>, <<"bottom", 0, -1, 0>>, <<"north", 0, 0, -1>>,
     <<"south", 0, 0, 1>>, <<"west", -1, 0, 0>>, <<"east", 1, 0, 0>> >>

\* the face class handed to Textures.getUV
faceClass(face) ==
  IF face = "top" THEN "top" ELSE IF face = "bottom" THEN "bottom" ELSE "side"

\* isTransparent of a block id
isTransparent(id) == BlockNames(id) = "glass" \/ BlockNames(id) = "water"

\* a face test without the rule for glass
showFaceAirOnly(id, neighbor) == neighbor = AIR

\* the test that shows a face of block id against its neighbour
showFace(id, neighbor) ==
  neighbor = AIR \/ (~isTransparent(id) /\ BlockNames(neighbor) = "glass")

\* The loop cells (x, sy, z) of a section that can read non-air: the loop
\* reads cell (x, sy, z) at world (cx*16+x, cy*16+sy, cz*16+z), which getBlock
\* resolves to index x + sy*16 + z*256 of this section, so the cells that
\* pass "id === AIR -> continue" are among the indices the section holds.
loopCells(section) ==
  { <<i % CHUNK_SIZE, (i \div CHUNK_SIZE) % SECTION_HEIGHT,
      i \div (CHUNK_SIZE * SECTION_HEIGHT)>> : i \in DOMAIN section.blocks }

\* the quads pushed by the loops of buildSectionMesh, <<face, wx, wy, wz, id>>
sectionQuads(ch, section, cx, cy, cz) ==
  LET worldX == cx * CHUNK_SIZE
      worldY == cy * SECTION_HEIGHT
      worldZ == cz * CHUNK_SIZE
  IN  UNION { LET wx == worldX + c[1]
                  wy == worldY + c[2]
                  wz == worldZ + c[3]
                  id == getBlock(ch, wx, wy, wz)
              IN  IF id = AIR THEN {}
                  ELSE { <<faces[f][1], wx, wy, wz, id>> :
                           f \in { g \in DOMAIN faces :
                                     showFace(id, getBlock(ch, wx + faces[g][2],
                                                wy + faces[g][3], wz + faces[g][4])) } }
            : c \in loopCells(section) }

\* the chunks the neighbour lookups of buildSectionMesh create: getBlock
\* passes the chunk of an in-range neighbour to getChunk, which allocates it
\* when the map does not hold it
sectionLookups(ch, section, cx, cy, cz) ==
  LET worldX == cx * CHUNK_SIZE
      worldY == cy * SECTION_HEIGHT
      worldZ == cz * CHUNK_SIZE
      keys == UNION { LET wx == worldX + c[1]
                          wy == worldY + c[2]
                          wz == worldZ + c[3]
                      IN  IF getBlock(ch, wx, wy, wz) = AIR THEN {}
                          ELSE { ChunkKey(FloorDiv(wx + faces[g][2], CHUNK_SIZE),
                                          FloorDiv(wz + faces[g][4], CHUNK_SIZE)) :
                                   g \in { f \in DOMAIN faces :
                                             /\ wy + faces[f][3] >= 0
                                             /\ wy + faces[f][3] < WORLD_HEIGHT } }
                    : c \in loopCells(section) }
  IN  keys \ DOMAIN ch

\* the floats pushed for quad q = <<face, wx, wy, wz, id>>:
\* makeFace(face, wx, wy, wz, Textures.getUV(name, face class))
quadVerts(q) ==
  makeFace(q[1], q[2], q[3], q[4], getUV(BlockNames(q[5]), faceClass(q[1])))

\* verts.length: every quad pushes the floats makeFace returns for its face
vertsLength(quads) ==
  LET n(f) == Cardinality({ q \in quads : q[1] = faces[f][1] })
             * Len(makeFace(faces[f][1], 0, 0, 0, getUV("undefined", "side")))
  IN  n(1) + n(2) + n(3) + n(4) + n(5) + n(6)

\* a buildSectionMesh that skips a section only while it has no buffer yet
\* built, so that a section built once is never built again
buildSectionMeshOnce(w, cx, cy, cz) ==
  LET section == w.chunks[ChunkKey(cx, cz)][cy] IN
  IF section.vertexBuffer # 0 THEN w
  ELSE LET quads == sectionQuads(w.chunks, section, cx, cy, cz)
           made == sectionLookups(w.chunks, section, cx, cy, cz)
           ch1 == w.chunks @@ [k \in made |-> createChunk]
       IN  [chunks |-> [ch1 EXCEPT ![ChunkKey(cx, cz)][cy] =
                          [@ EXCEPT !.vertexCount = vertsLength(quads) \div 6,
                                    !.vertexBuffer = Len(w.gl) + 1,
                                    !.mesh = TRUE]],
            gl |-> Append(w.gl, quads)]

\* World.buildSectionMesh on section cy of chunk (cx, cz); w = [chunks, gl]
buildSectionMesh(w, cx, cy, cz) ==
  LET section == w.chunks[ChunkKey(cx, cz)][cy] IN
  IF section.mesh THEN w
  ELSE LET quads == sectionQuads(w.chunks, section, cx, cy, cz)
           made == sectionLookups(w.chunks, section, cx, cy, cz)
           ch1 == w.chunks @@ [k \in made |-> createChunk]
       IN  [chunks |-> [ch1 EXCEPT ![ChunkKey(cx, cz)][cy] =
                          [@ EXCEPT !.vertexCount = vertsLength(quads) \div 6,
                                    !.vertexBuffer = Len(w.gl) + 1,
                                    !.mesh = TRUE]],
            gl |-> Append(w.gl, quads)]

RECURSIVE buildSections(_, _, _, _)
buildSections(w, cx, cz, i) ==
  IF i >= NumSections THEN w
  ELSE buildSections(buildSectionMesh(w, cx, i, cz), cx, cz, i + 1)

\* World.buildChunkMeshes(cx, cz); w = [chunks, gl]
buildChunkMeshes(w, cx, cz) ==
  buildSections([chunks |-> getChunk(w.chunks, cx, cz), gl |-> w.gl], cx, cz, 0)

(***************************************************************************)
(* Player.  Lengths are fixed-point numbers, Unit to the block, velocities *)
(* lengths per tick, angles micro-radians; Math.sin and Math.cos are       *)
(* tabulated in 1/Unit for the angles the mouse inputs of the model reach. *)
(***************************************************************************)
Unit == 10000

speed == 1200
sensitivity == 2000
gravity == -100
jumpForce == 2200
HeadHeight == 17000
CameraHeight == 16000
HalfPi == 1570796

PlayerInit ==
  [x |-> 0, y |-> 40 * Unit, z |-> 0, velX |-> 0, velY |-> 0, velZ |-> 0,
   yaw |-> 0, pitch |-> 0, onGround |-> FALSE,
   input |-> [w |-> FALSE, a |-> FALSE, s |-> FALSE, d |-> FALSE, space |-> FALSE]]

\* Math.floor of a length, in blocks
Floor(v) == v \div Unit

\* a / d rounded to the nearest integer
Round(a, d) == (2 * a + d) \div (2 * d)

Abs(a) == IF a < 0 THEN -a ELSE a
Sign(a) == IF a > 0 THEN 1 ELSE IF a < 0 THEN -1 ELSE 0

\* Math.sin in 1/Unit
MathSin(a) ==
  CASE a = 0 -> 0
    [] Abs(a) = 1570000 -> Sign(a) * 10000
    [] Abs(a) = HalfPi  -> Sign(a) * 10000
    [] Abs(a) = 3140000 -> Sign(a) * 16
    [] Abs(a) = 4710000 -> Sign(a) * (-10000)
    [] Abs(a) = 6280000 -> Sign(a) * (-32)

\* Math.cos in 1/Unit; the cosine of the double nearest pi/2 is 6.1e-17, not
\* zero, and is kept positive
MathCos(a) ==
  CASE a = 0 -> 10000
    [] Abs(a) = 1570000 -> 8
    [] Abs(a) = HalfPi  -> 1
    [] Abs(a) = 3140000 -> -10000
    [] Abs(a) = 4710000 -> -24
    [] Abs(a) = 6280000 -> 10000

\* Math.sqrt rounded down, by bisection of lo..hi
RECURSIVE SqrtIn(_, _, _)
SqrtIn(n, lo, hi) ==
  IF lo >= hi THEN lo
  ELSE LET mid == (lo + hi + 1) \div 2
       IN  IF mid * mid <= n THEN SqrtIn(n, mid, hi) ELSE SqrtIn(n, lo, mid - 1)

MathSqrt(n) == SqrtIn(n, 0, 3 * Unit)

\* the keydown and keyup handlers of Player._setupInput
keyField(code) ==
  CASE code = "KeyW" -> "w" [] code = "KeyS" -> "s" [] code = "KeyA" -> "a"
    [] code = "KeyD" -> "d" [] code = "Space" -> "space" [] OTHER -> ""

setKey(p, code, down) ==
  IF keyField(code) = "" THEN p
  ELSE [p EXCEPT !.input[keyField(code)] = down]

\* Player._mouseMove
mouseMove(p, movementX, movementY) ==
  LET pitch == p.pitch - movementY * sensitivity
      clamped == IF pitch > HalfPi THEN HalfPi
                 ELSE IF pitch < -HalfPi THEN -HalfPi ELSE pitch
  IN  [p EXCEPT !.yaw = @ - movementX * sensitivity, !.pitch = clamped]

\* Player._moveWithCollision; w = [chunks, player].  The four getBlock calls
\* run in the order of the code, each on the chunk map the one before left.
\* a step that tests the feet voxel only on the vertical axis
moveWithCollisionFeet(w) ==
  LET p == w.player
      newX == p.x + p.velX
      newY == p.y + p.velY
      newZ == p.z + p.velZ
      feet == Floor(newY)
      blockFeet == getBlock(w.chunks, Floor(newX), feet, Floor(p.z))
      ch1 == getBlockChunks(w.chunks, Floor(newX), feet, Floor(p.z))
      blockFeetZ == getBlock(ch1, Floor(p.x), feet, Floor(newZ))
      ch2 == getBlockChunks(ch1, Floor(p.x), feet, Floor(newZ))
      x1 == IF blockFeet = 0 THEN newX ELSE p.x
      z1 == IF blockFeetZ = 0 THEN newZ ELSE p.z
      blockBelow == getBlock(ch2, Floor(x1), Floor(newY), Floor(z1))
      ch3 == getBlockChunks(ch2, Floor(x1), Floor(newY), Floor(z1))
  IN  [chunks |-> ch3,
       player |->
         IF blockBelow = 0
         THEN [p EXCEPT !.x = x1, !.z = z1, !.y = newY, !.onGround = FALSE]
         ELSE [p EXCEPT !.x = x1, !.z = z1,
                        !.onGround = IF p.velY < 0 THEN TRUE ELSE @,
                        !.velY = 0]]

moveWithCollision(w) ==
  LET p == w.player
      newX == p.x + p.velX
      newY == p.y + p.velY
      newZ == p.z + p.velZ
      feet == Floor(newY)
      head == Floor(newY + HeadHeight)
      blockFeet == getBlock(w.chunks, Floor(newX), feet, Floor(p.z))
      ch1 == getBlockChunks(w.chunks, Floor(newX), feet, Floor(p.z))
      blockFeetZ == getBlock(ch1, Floor(p.x), feet, Floor(newZ))
      ch2 == getBlockChunks(ch1, Floor(p.x), feet, Floor(newZ))
      x1 == IF blockFeet = 0 THEN newX ELSE p.x
      z1 == IF blockFeetZ = 0 THEN newZ ELSE p.z
      blockBelow == getBlock(ch2, Floor(x1), Floor(newY), Floor(z1))
      ch3 == getBlockChunks(ch2, Floor(x1), Floor(newY), Floor(z1))
      blockAbove == getBlock(ch3, Floor(x1), Floor(newY + HeadHeight), Floor(z1))
      ch4 == getBlockChunks(ch3, Floor(x1), Floor(newY + HeadHeight), Floor(z1))
  IN  [chunks |-> ch4,
       player |->
         IF blockBelow = 0 /\ blockAbove = 0
         THEN [p EXCEPT !.x = x1, !.z = z1, !.y = newY, !.onGround = FALSE]
         ELSE [p EXCEPT !.x = x1, !.z = z1,
                        !.onGround = IF p.velY < 0 THEN TRUE ELSE @,
                        !.velY = 0]]

\* velX and velZ as Player.update sets them: <<velX, velZ>>
horizontalVelocity(p) ==
  LET sin == MathSin(p.yaw)
      cos == MathCos(p.yaw)
      mx0 == (IF p.input.w THEN sin ELSE 0) - (IF p.input.s THEN sin ELSE 0)
               - (IF p.input.a THEN cos ELSE 0) + (IF p.input.d THEN cos ELSE 0)
      mz0 == (IF p.input.w THEN cos ELSE 0) - (IF p.input.s THEN cos ELSE 0)
               + (IF p.input.a THEN sin ELSE 0) - (IF p.input.d THEN sin ELSE 0)
      mag == MathSqrt(mx0 * mx0 + mz0 * mz0)
      mx == IF mag > 0 THEN Round(mx0 * Unit, mag) ELSE mx0
      mz == IF mag > 0 THEN Round(mz0 * Unit, mag) ELSE mz0
  IN  <<Round(mx * speed, Unit), Round(mz * speed, Unit)>>

\* an update that jumps whenever the jump key is held
updateVelocityAir(p) ==
  <<horizontalVelocity(p)[1],
    IF p.input.space THEN jumpForce ELSE p.velY + gravity,
    horizontalVelocity(p)[2],
    p.input.space>>

\* the velocity Player.update sets before it moves: <<velX, velY, velZ, jump>>
updateVelocity(p) ==
  <<horizontalVelocity(p)[1],
    IF p.onGround /\ p.input.space THEN jumpForce ELSE p.velY + gravity,
    horizontalVelocity(p)[2],
    p.onGround /\ p.input.space>>

\* Player.update; w = [chunks, player]
update(w) ==
  LET v == updateVelocity(w.player)
  IN  moveWithCollision(
        [w EXCEPT !.player = [@ EXCEPT !.velX = v[1], !.velY = v[2], !.velZ = v[3],
                                       !.onGround = IF v[4] THEN FALSE ELSE @]])

\* Player.getDirection, in 1/(Unit * Unit)
getDirection(p) ==
  << MathCos(p.pitch) * MathSin(p.yaw),
     MathSin(p.pitch) * Unit,
     MathCos(p.pitch) * MathCos(p.yaw) >>

\* null
NoHit == [x |-> 0, y |-> 0, z |-> 0, id |-> 0]

\* The loop of Player.raycast from step i on; lengths along the ray are kept
\* in 1/(10 * Unit), the size of a tenth of a direction component.
RECURSIVE raycastSteps(_, _, _, _)
raycastSteps(ch, p, i, n) ==
  IF i > n THEN [chunks |-> ch, hit |-> NoHit]
  ELSE LET dir == getDirection(p)
           bx == (p.x * 10 + i * Round(dir[1], Unit)) \div (10 * Unit)
           by == ((p.y + CameraHeight) * 10 + i * Round(dir[2], Unit)) \div (10 * Unit)
           bz == (p.z * 10 + i * Round(dir[3], Unit)) \div (10 * Unit)
           block == getBlock(ch, bx, by, bz)
           ch1 == getBlockChunks(ch, bx, by, bz)
       IN  IF block # 0 THEN [chunks |-> ch1, hit |-> [x |-> bx, y |-> by, z |-> bz, id |-> block]]
           ELSE raycastSteps(ch1, p, i + 1, n)

\* a raycast that takes a step of 0.2 for each step counted
raycastHalf(w, maxDist) == raycastSteps(w.chunks, w.player, 1, maxDist * 5)

\* Player.raycast(maxDist); w = [chunks, player]
raycast(w, maxDist) == raycastSteps(w.chunks, w.player, 1, maxDist * 10)

(***************************************************************************)
(* UI and Main                                                             *)
(***************************************************************************)
hotbarSize == 9
hotbarItems == <<1, 2, 3, 4, 5, 6, 7, 8, 9>>

UiInit == [selectedBlock |-> 1]

\* the wheel handler of UI._setupHotbarInput
wheel(u, deltaY) ==
  LET s1 == IF deltaY > 0 THEN u.selectedBlock + 1
            ELSE IF deltaY < 0 THEN u.selectedBlock - 1 ELSE u.selectedBlock
      s2 == IF s1 < 1 THEN hotbarSize ELSE s1
      s3 == IF s2 > hotbarSize THEN 1 ELSE s2
  IN  [u EXCEPT !.selectedBlock = s3]

\* a branch of the mousedown handler: setBlock on the cell, then
\* buildChunkMeshes on the chunk of the cell
editBlock(w, hit, x, y, z, blockId) ==
  [hit |-> hit, cell |-> <<x, y, z>>]
    @@ buildChunkMeshes([chunks |-> setBlock(w.chunks, x, y, z, blockId), gl |-> w.gl],
                        FloorDiv(x, 16), FloorDiv(z, 16))

\* the handler after its raycast returned hit, looking along dir
mouseDownHit(w, button, hit, dir) ==
  IF hit = NoHit
  THEN [chunks |-> w.chunks, gl |-> w.gl, hit |-> hit, cell |-> << >>]
  ELSE IF button = 0
  THEN editBlock(w, hit, hit.x, hit.y, hit.z, 0)
  ELSE editBlock(w, hit, hit.x - Sign(dir[1]), hit.y - Sign(dir[2]), hit.z - Sign(dir[3]),
                 hotbarItems[(w.ui.selectedBlock - 1) + 1])

\* the handler with r the result of its raycast
mouseDownRay(w, button, r) ==
  mouseDownHit([w EXCEPT !.chunks = r.chunks], button, r.hit, getDirection(w.player))

\* the mousedown handler of Main._handleBlockInteraction; w = [chunks, gl,
\* player, ui]; the result holds the hit and the cell written (<< >>: none)
mouseDown(w, button) ==
  IF button \notin {0, 2}
  THEN [chunks |-> w.chunks, gl |-> w.gl, hit |-> NoHit, cell |-> << >>]
  ELSE mouseDownRay(w, button, raycast([chunks |-> w.chunks, player |-> w.player], 5))

radius == 2

\* The inner loop of Main._generateWorldAroundPlayer from chunk (cx, cz) on;
\* w = [chunks, gl].  The test on the chunk map is true after every iteration:
\* it makes the world of one iteration a value before the next one reads it.
RECURSIVE generateRow(_, _, _)
generateRow(w, cx, cz) ==
  IF cz > radius THEN w
  ELSE LET w1 == buildChunkMeshes([chunks |-> generateChunk(w.chunks, cx, cz),
                                   gl |-> w.gl], cx, cz)
       IN  IF ChunkKey(cx, cz) \in DOMAIN w1.chunks
           THEN generateRow(w1, cx, cz + 1)
           ELSE w1

(***************************************************************************)
(* State.  last records the latest call and what it returned; count the    *)
(* calls made so far, which the guards of the actions bound.  hist is      *)
(* history kept for the claims: the sections written since the last build  *)
(* of their chunk, the chunks a write touched or bordered and that were    *)
(* not built since, and the chunks built at least once.                    *)
(***************************************************************************)
NoHist == [written |-> {}, pending |-> {}, built |-> {}, generated |-> << >>]

\* the chunk and the section holding the cell (x, y, z)
CellChunk(x, z) == <<x \div 16, z \div 16>>
CellSection(x, y, z) == <<CellChunk(x, z), y \div 16>>

\* hist after a write to (x, y, z)
histWrite(h, x, y, z) ==
  IF y < 0 \/ y >= 128 THEN h
  ELSE [h EXCEPT !.written = @ \cup {CellSection(x, y, z)},
                 !.pending = @ \cup { CellChunk(x, z), CellChunk(x - 1, z),
                                      CellChunk(x + 1, z), CellChunk(x, z - 1),
                                      CellChunk(x, z + 1) }]

\* hist after chunk (cx, cz) was generated
histGenerate(h, cx, cz) ==
  [h EXCEPT !.written = @ \cup { <<<<cx, cz>>, i>> : i \in 0..7 },
            !.pending = @ \cup { <<cx, cz>>, <<cx - 1, cz>>, <<cx + 1, cz>>,
                                 <<cx, cz - 1>>, <<cx, cz + 1>> },
            !.generated = Append(@, <<cx, cz>>)]

\* hist after a build of chunk (cx, cz)
histBuild(h, cx, cz) ==
  [h EXCEPT !.written = { s \in @ : s[1] # <<cx, cz>> },
            !.pending = @ \ {<<cx, cz>>},
            !.built = @ \cup {<<cx, cz>>}]

\* hist after the inner loop of Main._generateWorldAroundPlayer from (cx, cz) on
RECURSIVE histStartup(_, _, _)
histStartup(h, cx, cz) ==
  IF cz > radius THEN h
  ELSE histStartup(histBuild(histGenerate(h, cx, cz), cx, cz), cx, cz + 1)

NoCount == [writes |-> 0, gens |-> 0, events |-> 0, ticks |-> 0]

\* the position of Main.init: in the outer loop of
\* Main._generateWorldAroundPlayer before the iteration cx, or done; "off"
\* where the run calls World and Player directly
BootOff == [pc |-> "off", cx |-> 0]
BootInit == [pc |-> "loop", cx |-> -radius]

NoCall == [op |-> "none", x |-> 0, y |-> 0, z |-> 0, k |-> 0, ret |-> 0]

Call(op, x, y, z, k, ret) ==
  [op |-> op, x |-> x, y |-> y, z |-> z, k |-> k, ret |-> ret]

(***************************************************************************)
(* Bounds and the inputs of the calls                                      *)
(***************************************************************************)
MaxWrites == 1
MaxBuffers == 18
MaxGens == 2
MaxEvents == 1
MaxTicks == 6
MinY == 30

\* The probe cells: a centre on the chunk border x = -1/0 and on the section
\* border y = 15/16, its six neighbours, cells with local x = 15 in three
\* chunks, a cell at the top level behind the chunk border z = -1/0, and
\* the levels out of range.
Centre == <<0, 16, 1>>
Around ==
  { <<-1, 16, 1>>, <<1, 16, 1>>, <<0, 15, 1>>, <<0, 17, 1>>, <<0, 16, 0>>, <<0, 16, 2>> }
ProbeCells ==
  {Centre} \cup Around
    \cup { <<-17, 16, 1>>, <<15, 16, 1>>, <<0, 127, -1>>, <<0, -1, 0>>, <<0, 128, 0>> }

\* the calls of setBlock tried: <<x, y, z, kind>>
ProbeWrites ==
  { <<0, 16, 1, AIR>>, <<0, 16, 1, STONE>>, <<-1, 16, 1, STONE>>, <<-1, 16, 1, 255>>,
    <<0, 15, 1, AIR>>, <<0, 15, 1, STONE>>, <<0, 16, 0, STONE>>, <<1, 16, 1, AIR>>,
    <<-17, 16, 1, 255>>, <<15, 16, 1, STONE>>, <<0, 127, -1, 255>>,
    <<0, -1, 0, STONE>>, <<0, 128, 0, STONE>> }
ProbeReads == { <<-17, 128, 0>>, <<-1, 16, 1>>, <<0, -1, -1>> }
ProbeChunks == { <<0, 0>>, <<-1, 0>> }

\* a sequence of setBlock calls on the world as constructed
RECURSIVE setBlocks(_, _)
setBlocks(ch, ws) ==
  IF ws = << >> THEN ch
  ELSE setBlocks(setBlock(ch, ws[1][1], ws[1][2], ws[1][3], ws[1][4]), Tail(ws))

At(c, k) == <<c[1], c[2], c[3], k>>

\* the worlds the runs start from: the world as constructed, and worlds
\* that calls of setBlock on it have built
Scenes ==
  { << >>,
    \* an isolated block
    << At(Centre, STONE) >>,
    \* a block enclosed by six opaque blocks
    << At(Centre, STONE), At(<<-1, 16, 1>>, STONE), At(<<1, 16, 1>>, DIRT),
       At(<<0, 15, 1>>, STONE), At(<<0, 17, 1>>, GRASS), At(<<0, 16, 0>>, STONE),
       At(<<0, 16, 2>>, SAND) >>,
    \* an opaque block next to glass, water and an opaque block
    << At(Centre, STONE), At(<<1, 16, 1>>, GLASS), At(<<0, 15, 1>>, GLASS),
       At(<<0, 17, 1>>, WATER), At(<<-1, 16, 1>>, STONE) >>,
    \* glass next to glass, water and an opaque block
    << At(Centre, GLASS), At(<<-1, 16, 1>>, GLASS), At(<<0, 17, 1>>, WATER),
       At(<<0, 16, 0>>, STONE) >>,
    \* water next to glass and water
    << At(Centre, WATER), At(<<1, 16, 1>>, GLASS), At(<<0, 15, 1>>, WATER) >>,
    \* a kind without a name next to an opaque block and glass
    << At(Centre, 200), At(<<1, 16, 1>>, STONE), At(<<0, 16, 2>>, GLASS) >> }

Init ==
  /\ chunks \in { setBlocks(<< >>, ws) : ws \in Scenes }
  /\ glBuffers = << >>
  /\ last = NoCall
  /\ player = PlayerInit
  /\ ui = UiInit
  /\ boot = BootOff
  /\ count = NoCount
  /\ hist = NoHist

(***************************************************************************)
(* Calls of the World interface                                            *)
(***************************************************************************)
SetBlock(x, y, z, k) ==
  /\ count.writes < MaxWrites
  /\ chunks' = setBlock(chunks, x, y, z, k)
  /\ last' = Call("setBlock", x, y, z, k, 0)
  /\ count' = [count EXCEPT !.writes = @ + 1]
  /\ hist' = histWrite(hist, x, y, z)
  /\ UNCHANGED <<glBuffers, player, ui, boot>>

GetBlock(x, y, z) ==
  /\ chunks' = getBlockChunks(chunks, x, y, z)
  /\ last' = Call("getBlock", x, y, z, 0, getBlock(chunks, x, y, z))
  /\ UNCHANGED <<glBuffers, player, ui, boot, count, hist>>

\* the sections of chunk (cx, cz) that buildChunkMeshes will build
dirtySections(ch, cx, cz) ==
  { i \in 0..(NumSections - 1) : ~chunkAt(ch, cx, cz)[i].mesh }

BuildChunkMeshes(cx, cz) ==
  /\ Len(glBuffers) + Cardinality(dirtySections(chunks, cx, cz)) <= MaxBuffers
  /\ LET w == buildChunkMeshes([chunks |-> chunks, gl |-> glBuffers], cx, cz)
     IN  /\ chunks' = w.chunks
         /\ glBuffers' = w.gl
  /\ last' = Call("buildChunkMeshes", cx, 0, cz, 0, 0)
  /\ hist' = histBuild(hist, cx, cz)
  /\ UNCHANGED <<player, ui, boot, count>>

GenerateChunk(cx, cz) ==
  /\ count.gens < MaxGens
  /\ chunks' = generateChunk(chunks, cx, cz)
  /\ last' = Call("generateChunk", cx, 0, cz, 0, 0)
  /\ count' = [count EXCEPT !.gens = @ + 1]
  /\ hist' = histGenerate(hist, cx, cz)
  /\ UNCHANGED <<glBuffers, player, ui, boot>>

Next ==
  \/ \E c \in ProbeWrites : SetBlock(c[1], c[2], c[3], c[4])
  \/ \E c \in ProbeReads : GetBlock(c[1], c[2], c[3])
  \/ \E c \in ProbeChunks : BuildChunkMeshes(c[1], c[2])

Spec == Init /\ [][Next]_vars

(***************************************************************************)
(* Player, UI and Main                                                     *)
(***************************************************************************)
\* the handlers run once Main.init has returned
Running == boot.pc \in {"off", "done"}

KeyDown(code) ==
  /\ Running
  /\ count.events < MaxEvents
  /\ player' = setKey(player, code, TRUE)
  /\ last' = Call("keydown", 0, 0, 0, 0, 0)
  /\ count' = [count EXCEPT !.events = @ + 1]
  /\ UNCHANGED <<chunks, glBuffers, ui, boot, hist>>

KeyUp(code) ==
  /\ Running
  /\ count.events < MaxEvents
  /\ player' = setKey(player, code, FALSE)
  /\ last' = Call("keyup", 0, 0, 0, 0, 0)
  /\ count' = [count EXCEPT !.events = @ + 1]
  /\ UNCHANGED <<chunks, glBuffers, ui, boot, hist>>

MouseMove(movementX, movementY) ==
  /\ Running
  /\ count.events < MaxEvents
  /\ player' = mouseMove(player, movementX, movementY)
  /\ last' = Call("mousemove", movementX, movementY, 0, 0, 0)
  /\ count' = [count EXCEPT !.events = @ + 1]
  /\ UNCHANGED <<chunks, glBuffers, ui, boot, hist>>

Wheel(deltaY) ==
  /\ Running
  /\ count.events < MaxEvents
  /\ ui' = wheel(ui, deltaY)
  /\ last' = Call("wheel", 0, deltaY, 0, 0, 0)
  /\ count' = [count EXCEPT !.events = @ + 1]
  /\ UNCHANGED <<chunks, glBuffers, player, boot, hist>>

MouseDownTo(w, button) ==
  /\ chunks' = w.chunks
  /\ glBuffers' = w.gl
  /\ last' = Call("mousedown", w.hit.x, w.hit.y, w.hit.z, button, w.hit.id)
  /\ hist' = IF w.cell = << >> THEN hist
             ELSE histBuild(histWrite(hist, w.cell[1], w.cell[2], w.cell[3]),
                            FloorDiv(w.cell[1], 16), FloorDiv(w.cell[3], 16))

MouseDown(button) ==
  /\ Running
  /\ count.events < MaxEvents
  /\ MouseDownTo(mouseDown([chunks |-> chunks, gl |-> glBuffers,
                            player |-> player, ui |-> ui], button), button)
  /\ count' = [count EXCEPT !.events = @ + 1]
  /\ UNCHANGED <<player, ui, boot>>

\* a call of Player.update; the call record keeps the position and the
\* vertical velocity it started with
Update ==
  /\ Running
  /\ player.y > MinY * Unit
  /\ LET w == update([chunks |-> chunks, player |-> player])
     IN  /\ chunks' = w.chunks
         /\ player' = w.player
  /\ last' = Call("update", player.x, player.y, player.z, player.velY, 0)
  /\ UNCHANGED <<glBuffers, ui, boot, count, hist>>

\* a call of Player.raycast
Raycast(maxDist) ==
  /\ Running
  /\ LET r == raycast([chunks |-> chunks, player |-> player], maxDist)
     IN  /\ chunks' = r.chunks
         /\ last' = Call("raycast", r.hit.x, r.hit.y, r.hit.z, maxDist, r.hit.id)
  /\ UNCHANGED <<glBuffers, player, ui, boot, count, hist>>

\* Main.loop: Player.update, then the rendering, which reads only
Loop ==
  /\ boot.pc = "done"
  /\ count.ticks < MaxTicks
  /\ LET w == update([chunks |-> chunks, player |-> player])
     IN  /\ chunks' = w.chunks
         /\ player' = w.player
  /\ last' = Call("loop", player.x, player.y, player.z, player.velY, 0)
  /\ count' = [count EXCEPT !.ticks = @ + 1]
  /\ UNCHANGED <<glBuffers, ui, boot, hist>>

\* one iteration of the outer loop of Main._generateWorldAroundPlayer
Startup ==
  /\ boot.pc = "loop"
  /\ LET w == generateRow([chunks |-> chunks, gl |-> glBuffers], boot.cx, -radius)
     IN  /\ chunks' = w.chunks
         /\ glBuffers' = w.gl
  /\ boot' = IF boot.cx < radius THEN [boot EXCEPT !.cx = @ + 1]
             ELSE [boot EXCEPT !.pc = "done"]
  /\ last' = Call("generateWorldAroundPlayer", boot.cx, 0, 0, 0, 0)
  /\ hist' = histStartup(hist, boot.cx, -radius)
  /\ UNCHANGED <<player, ui, count>>

KeyCodes == {"KeyW", "Space"}
MouseMoves == { <<-785, 0>>, <<0, 785>> }
WheelDeltas == {100}
Buttons == {0, 2}

InitMain ==
  /\ chunks = << >>
  /\ glBuffers = << >>
  /\ player = PlayerInit
  /\ ui = UiInit
  /\ boot = BootInit
  /\ last = NoCall
  /\ count = NoCount
  /\ hist = NoHist

NextMain ==
  \/ Startup
  \/ Loop
  \/ \E code \in KeyCodes : KeyDown(code)
  \/ \E code \in KeyCodes : KeyUp(code)
  \/ \E m \in MouseMoves : MouseMove(m[1], m[2])
  \/ \E d \in WheelDeltas : Wheel(d)
  \/ \E b \in Buttons : MouseDown(b)

SpecMain == InitMain /\ [][NextMain]_vars

\* worlds for the calls of Player: a floor at level 32 under the player, and
\* the floor with a block at the height the head passes while falling
Ground == << <<0, 32, 0, GRASS>>, <<0, 32, 1, GRASS>>, <<-1, 32, 0, STONE>> >>
PlayerScenes == { Ground, Ground \o << <<0, 41, 1, STONE>> >> }
InitPlayer ==
  /\ chunks \in { setBlocks(<< >>, ws) : ws \in PlayerScenes }
  /\ glBuffers = << >>
  /\ player = PlayerInit
  /\ ui = UiInit
  /\ boot = BootOff
  /\ last = NoCall
  /\ count = NoCount
  /\ hist = NoHist

NextPlayer ==
  \/ Update
  \/ \E code \in KeyCodes : KeyDown(code)
  \/ \E code \in KeyCodes : KeyUp(code)
  \/ \E m \in MouseMoves : MouseMove(m[1], m[2])
  \/ \E b \in Buttons : MouseDown(b)

SpecPlayer == InitPlayer /\ [][NextPlayer]_vars

\* the calls that read the world, on the worlds of the calls of Player
PlayerReads == { <<0, 32, 0>>, <<0, 41, 1>>, <<0, 32, -1>> }

NextReaders ==
  \/ Update
  \/ Raycast(5)
  \/ \E c \in PlayerReads : GetBlock(c[1], c[2], c[3])
  \/ BuildChunkMeshes(0, 0)
  \/ \E m \in MouseMoves : MouseMove(m[1], m[2])

SpecReaders == InitPlayer /\ [][NextReaders]_vars

\* worlds for the calls of Player.raycast: the floor alone, and the floor with
\* blocks 3 cells away along +Z at heights the eye passes while falling
Wall == << <<0, 41, 3, STONE>>, <<0, 37, 3, GLASS>>, <<0, 35, 2, WOOD>> >>
RayScenes == { Ground, Ground \o Wall }
RayDists == {2, 5}
InitRay ==
  /\ chunks \in { setBlocks(<< >>, ws) : ws \in RayScenes }
  /\ glBuffers = << >>
  /\ player = PlayerInit
  /\ ui = UiInit
  /\ boot = BootOff
  /\ last = NoCall
  /\ count = NoCount
  /\ hist = NoHist

NextRay ==
  \/ Update
  \/ \E d \in RayDists : Raycast(d)
  \/ \E m \in MouseMoves : MouseMove(m[1], m[2])

SpecRay == InitRay /\ [][NextRay]_vars

\* worlds for walking: the floor, the floor with a pillar of two blocks
\* beside the spawn cell, and the floor with a block diagonally below the
\* spawn cell
Pillar == << <<-1, 40, 0, STONE>>, <<-1, 41, 0, STONE>> >>
Corner == << <<-1, 39, -1, STONE>> >>
RECURSIVE setKeys(_, _)
setKeys(p, codes) ==
  IF codes = {} THEN p
  ELSE LET code == CHOOSE c \in codes : TRUE
       IN  setKeys(setKey(p, code, TRUE), codes \ {code})

\* the starts of the walks: a world and the keys pressed before the first
\* tick
WalkStarts ==
  { <<Ground, {}>>, <<Ground \o Pillar, {}>>, <<Ground \o Corner, {"KeyA", "KeyS"}>> }
WalkDown == {"KeyA", "KeyD", "Space"}
WalkUp == {"KeyA"}
InitWalk ==
  /\ \E st \in WalkStarts :
       /\ chunks = setBlocks(<< >>, st[1])
       /\ player = setKeys(PlayerInit, st[2])
  /\ glBuffers = << >>
  /\ ui = UiInit
  /\ boot = BootOff
  /\ last = NoCall
  /\ count = NoCount
  /\ hist = NoHist

NextWalk ==
  \/ Update
  \/ \E code \in WalkDown : KeyDown(code)
  \/ \E code \in WalkUp : KeyUp(code)

SpecWalk == InitWalk /\ [][NextWalk]_vars

\* worlds for clicks: the floor with a block at eye height one cell away along
\* +Z, along +X, and along +X with a block diagonally behind the player
AheadZ == << <<0, 41, 1, STONE>> >>
AheadX == << <<1, 41, 0, STONE>> >>
Behind == << <<0, 41, -1, WOOD>> >>

\* the starts of the clicks: a world and the mouse movement made before the
\* first tick (none, a quarter turn to +X, a look down)
ClickStarts ==
  { <<Ground \o AheadZ, <<0, 0>>>>, <<Ground \o AheadX, <<-785, 0>>>>,
    <<Ground \o AheadX \o Behind, <<-785, 0>>>>, <<Ground, <<0, 785>>>> }
InitClick ==
  /\ \E st \in ClickStarts :
       /\ chunks = setBlocks(<< >>, st[1])
       /\ player = mouseMove(PlayerInit, st[2][1], st[2][2])
  /\ glBuffers = << >>
  /\ ui = UiInit
  /\ boot = BootOff
  /\ last = NoCall
  /\ count = NoCount
  /\ hist = NoHist

NextClick ==
  \/ Update
  \/ \E b \in Buttons : MouseDown(b)
  \/ \E d \in WheelDeltas : Wheel(d)

SpecClick == InitClick /\ [][NextClick]_vars

(***************************************************************************)
(* Terrain generation through the World interface                          *)
(***************************************************************************)
\* worlds that calls of setBlock have built: blocks above, at and below the
\* surface level in the chunks to generate, and in a chunk that is not
GenScenes ==
  { << >>,
    << <<0, 40, 1, STONE>>, <<0, 29, 1, STONE>>, <<15, 127, 15, GLASS>>,
       <<-1, 33, 1, WOOD>>, <<-16, 5, 0, AIR>>, <<0, 40, -1, SAND>> >> }

GenChunks == { <<0, 0>>, <<-1, 0>> }
GenWrites == { <<0, 40, 1, STONE>>, <<0, 32, 1, AIR>>, <<-1, 29, 1, 255>>, <<0, 33, -1, SAND>> }

InitGen ==
  /\ chunks \in { setBlocks(<< >>, ws) : ws \in GenScenes }
  /\ glBuffers = << >>
  /\ last = NoCall
  /\ player = PlayerInit
  /\ ui = UiInit
  /\ boot = BootOff
  /\ count = NoCount
  /\ hist = NoHist

NextGen ==
  \/ \E c \in GenChunks : GenerateChunk(c[1], c[2])
  \/ \E c \in GenWrites : SetBlock(c[1], c[2], c[3], c[4])

SpecGen == InitGen /\ [][NextGen]_vars

\* the column at world (x, z) has the generated profile
ColumnProfile(ch, x, z) ==
  /\ getBlock(ch, x, 32, z) = GRASS
  /\ \A y \in 30..31 : getBlock(ch, x, y, z) = DIRT
  /\ \A y \in 0..28 : getBlock(ch, x, y, z) = STONE
  /\ \A y \in 33..127 : getBlock(ch, x, y, z) = AIR

\* the voxels stored for chunk k (a chunk that is not allocated holds none)
ChunkBlocks(ch, k) ==
  IF k \in DOMAIN ch THEN [s \in DOMAIN ch[k] |-> ch[k][s].blocks]
  ELSE [s \in DOMAIN createChunk |-> << >>]

\* C7: generateChunk(cx, cz) overwrites the chunk with the terrain profile in
\* each of its 256 columns (y = 32 GRASS, y = 30 and 31 DIRT, y < 29 STONE,
\* 33 <= y < 128 AIR); a second call in a row leaves the contents of the
\* first; no cell of any other chunk changes.
C7_GenerateChunk ==
  [][last'.op = "generateChunk" =>
       LET cx == last'.x
           cz == last'.z
       IN  /\ \A x \in 0..15, z \in 0..15 :
                 ColumnProfile(chunks', cx * 16 + x, cz * 16 + z)
           /\ \A k \in (DOMAIN chunks \cup DOMAIN chunks') \ {<<cx, cz>>} :
                 ChunkBlocks(chunks', k) = ChunkBlocks(chunks, k)
           /\ (last.op = "generateChunk" /\ last.x = cx /\ last.z = cz)
                 => ChunkBlocks(chunks', <<cx, cz>>) = ChunkBlocks(chunks, <<cx, cz>>)]_vars

\* chunk (0, 0) was generated twice in a row over the blocks the run started
\* with, next to a chunk that holds a block
C7_Witness ==
  /\ last.op = "generateChunk"
  /\ hist.generated = << <<0, 0>>, <<0, 0>> >>
  /\ count.writes = 0
  /\ getBlock(chunks, -1, 33, 1) = WOOD
  /\ getBlock(chunks, 0, 40, 1) = AIR
  /\ getBlock(chunks, 0, 29, 1) = AIR

(***************************************************************************)
(* Claims about the block store                                            *)
(***************************************************************************)
InRange(y) == 0 <= y /\ y < WORLD_HEIGHT

\* coordinates read before and after a call: the probe cells, their
\* neighbours across the borders and the cells an index or chunk mix-up
\* would hit
FrameX == {-17, -16, -1, 0, 1, 15}
FrameY == {0, 15, 16, 17, 127}
FrameZ == {-1, 0, 1, 2}

\* C1: setBlock(x,y,z,k) with 0 <= y < 128 and k in 0..255, immediately
\* followed by getBlock(x,y,z), returns k, for negative x and z too and
\* whether or not the chunk existed before.
C1_RoundTrip ==
  (last.op = "setBlock" /\ InRange(last.y) /\ last.k \in 0..255)
    => getBlock(chunks, last.x, last.y, last.z) = last.k

C1_Witness ==
  /\ last.op = "setBlock"
  /\ last.x = -17
  /\ last.k = 255
  /\ getBlock(chunks, last.x, last.y, last.z) = 255

\* C2: setBlock(x,y,z,k) with 0 <= y < 128 changes what getBlock returns at
\* (x,y,z) only: every other coordinate reads the same kind before and after.
C2_Frame ==
  [][ (last'.op = "setBlock" /\ count'.writes = count.writes + 1 /\ InRange(last'.y))
        => \A x \in FrameX, y \in FrameY, z \in FrameZ :
             <<x, y, z>> # <<last'.x, last'.y, last'.z>>
               => getBlock(chunks', x, y, z) = getBlock(chunks, x, y, z) ]_vars

\* a block written at local x = 15 of chunk (-1,0) while the cells with the
\* same local index in the chunks (0,0) and (-2,0) hold other kinds
C2_Witness ==
  /\ last.op = "setBlock"
  /\ <<last.x, last.y, last.z>> = <<-1, 16, 1>>
  /\ last.k = 255
  /\ getBlock(chunks, -1, 16, 1) = 255
  /\ getBlock(chunks, 0, 16, 1) = STONE
  /\ getBlock(chunks, 15, 16, 1) = AIR
  /\ getBlock(chunks, 0, 16, 0) = STONE

\* C3: for y < 0 or y >= 128, getBlock returns 0 and setBlock is a no-op:
\* no stored cell changes, no built flag is cleared, no chunk is allocated.
C3_OutOfRange ==
  [][ (last'.op \in {"setBlock", "getBlock"} /\ ~InRange(last'.y)
        /\ (last'.op = "setBlock" => count'.writes = count.writes + 1))
        => /\ chunks' = chunks
           /\ glBuffers' = glBuffers
           /\ last'.op = "getBlock" => last'.ret = AIR ]_vars

\* an out-of-range setBlock on a world holding blocks and a built section
C3_Witness ==
  /\ last.op = "setBlock"
  /\ last.y = 128
  /\ last.k = STONE
  /\ getBlock(chunks, 0, 16, 1) = STONE
  /\ \E k \in DOMAIN chunks : \E i \in DOMAIN chunks[k] : chunks[k][i].mesh

(***************************************************************************)
(* Claims about the section meshes                                         *)
(***************************************************************************)
Dirs == { <<0, 1, 0>>, <<0, -1, 0>>, <<0, 0, -1>>, <<0, 0, 1>>, <<-1, 0, 0>>, <<1, 0, 0>> }

\* the cells that can hold a block in the runs of Spec
BlockCells == ProbeCells

\* every stored block lies at one of BlockCells
BlocksAtBlockCells ==
  \A k \in DOMAIN chunks : \A i \in DOMAIN chunks[k] :
    \A idx \in DOMAIN chunks[k][i].blocks :
      <<k[1] * 16 + (idx % 16), i * 16 + ((idx \div 16) % 16), k[2] * 16 + (idx \div 256)>>
        \in BlockCells

\* the (cell, direction) pairs of section cy of chunk (cx, cz) whose cell is
\* not empty and whose neighbour is empty, or is glass while the cell is
\* neither glass nor water
VisiblePairs(ch, cx, cy, cz) ==
  { p \in BlockCells \X Dirs :
      LET c == p[1]
          d == p[2]
          id == getBlock(ch, c[1], c[2], c[3])
          nb == getBlock(ch, c[1] + d[1], c[2] + d[2], c[3] + d[3])
      IN  /\ CellSection(c[1], c[2], c[3]) = <<<<cx, cz>>, cy>>
          /\ id # 0
          /\ (nb = 0 \/ (nb = GLASS /\ id # GLASS /\ id # WATER)) }

\* the quads of the buffer of section i of chunk k that belong to cell c
QuadsAt(ch, gl, k, i, c) ==
  IF ch[k][i].vertexBuffer = 0 THEN {}
  ELSE { q \in gl[ch[k][i].vertexBuffer] : <<q[2], q[3], q[4]>> = c }

\* C6: a section that buildSectionMesh builds gets vertexCount = 6 times the
\* number of (non-empty cell, face) pairs whose neighbour is empty, or is
\* glass while the cell is neither glass nor water; so an isolated block
\* gives 36 vertices and a block enclosed by six opaque blocks gives none.
C6_FaceCulling ==
  [][ last'.op = "buildChunkMeshes"
        => LET key == <<last'.x, last'.z>> IN
           /\ BlocksAtBlockCells'
           /\ \A i \in dirtySections(chunks, key[1], key[2]) :
                /\ chunks'[key][i].vertexCount
                     = 6 * Cardinality(VisiblePairs(chunks', key[1], i, key[2]))
                /\ \A c \in BlockCells :
                     (CellSection(c[1], c[2], c[3]) = <<key, i>>
                        /\ getBlock(chunks', c[1], c[2], c[3]) \in {DIRT, GRASS, STONE, SAND})
                       => /\ (\A d \in Dirs : getBlock(chunks', c[1] + d[1], c[2] + d[2],
                                                   c[3] + d[3]) = AIR)
                             => 6 * Cardinality(QuadsAt(chunks', glBuffers', key, i, c)) = 36
                          /\ (\A d \in Dirs : getBlock(chunks', c[1] + d[1], c[2] + d[2],
                                                   c[3] + d[3]) \in {DIRT, GRASS, STONE, SAND})
                             => 6 * Cardinality(QuadsAt(chunks', glBuffers', key, i, c)) = 0 ]_vars

\* the section of the centre built while the centre is enclosed by six
\* opaque blocks: the four neighbours in the section show 5 faces each
C6_Witness ==
  /\ last.op = "buildChunkMeshes"
  /\ <<last.x, last.z>> = <<0, 0>>
  /\ getBlock(chunks, 0, 16, 1) = STONE
  /\ \A c \in Around : getBlock(chunks, c[1], c[2], c[3]) \in {DIRT, GRASS, STONE, SAND}
  /\ chunks[<<0, 0>>][1].mesh
  /\ QuadsAt(chunks, glBuffers, <<0, 0>>, 1, Centre) = {}
  /\ chunks[<<0, 0>>][1].vertexCount = 120

\* C10: buildChunkMeshes on a chunk built before rebuilds exactly the
\* sections written since that build, each into one new buffer, and leaves
\* all its sections built; with no section written it changes nothing.
C10_CacheStable ==
  [][ (last'.op = "buildChunkMeshes" /\ <<last'.x, last'.z>> \in hist.built)
        => LET key == <<last'.x, last'.z>>
               W == { i \in DOMAIN chunks[key] : <<key, i>> \in hist.written }
           IN  /\ \A i \in DOMAIN chunks[key] :
                    /\ chunks'[key][i].mesh
                    /\ i \notin W => chunks'[key][i] = chunks[key][i]
                    /\ i \in W => chunks'[key][i].vertexBuffer > Len(glBuffers)
               /\ Len(glBuffers') = Len(glBuffers) + Cardinality(W)
               /\ SubSeq(glBuffers', 1, Len(glBuffers)) = glBuffers
               /\ W = {} => (chunks' = chunks /\ glBuffers' = glBuffers) ]_vars

\* a chunk built, written in one section, built again and built once more
C10_Witness ==
  /\ last.op = "buildChunkMeshes"
  /\ <<last.x, last.z>> = <<0, 0>>
  /\ count.writes = 1
  /\ Len(glBuffers) = 9
  /\ chunks[<<0, 0>>][1].vertexBuffer = 9
  /\ chunks[<<0, 0>>][1].vertexCount = 36
  /\ hist.written = {}

\* every section marked built caches what the mesher computes now
AllBuiltFresh ==
  \A k \in DOMAIN chunks : \A i \in DOMAIN chunks[k] :
    chunks[k][i].mesh
      => LET quads == sectionQuads(chunks, chunks[k][i], k[1], i, k[2]) IN
         /\ glBuffers[chunks[k][i].vertexBuffer] = quads
         /\ chunks[k][i].vertexCount = vertsLength(quads) \div 6

\* C4: once every chunk that a setBlock touched or bordered has been built
\* again, every section marked built caches the geometry the mesher
\* computes from the current blocks (the section next to a changed border
\* cell was re-meshed too).
C4_BorderRemesh ==
  (last.op = "buildChunkMeshes" /\ hist.pending = {}) => AllBuiltFresh

\* the quads cached for the built sections that show a face between two
\* blocks of different chunks, next to each other on a level
BorderFaces ==
  { q \in UNION { UNION { glBuffers[chunks[k][i].vertexBuffer] :
                            i \in { j \in DOMAIN chunks[k] : chunks[k][j].mesh } } :
                    k \in DOMAIN chunks } :
      \E f \in DOMAIN faces :
        /\ faces[f][1] = q[1]
        /\ faces[f][3] = 0
        /\ CellChunk(q[2] + faces[f][2], q[4] + faces[f][4]) # CellChunk(q[2], q[4])
        /\ getBlock(chunks, q[2], q[3], q[4]) # AIR
        /\ getBlock(chunks, q[2] + faces[f][2], q[3], q[4] + faces[f][4]) # AIR }

\* C5: once the startup sequence has run (generateChunk then buildChunkMeshes
\* for each chunk of the 5x5 area, in loop order), no built section caches a
\* face between two solid blocks that are next to each other on a level and
\* lie in different chunks.
C5_CrossChunk ==
  (boot.pc = "done" /\ count.events = 0) => BorderFaces = {}

(***************************************************************************)
(* Claims about the player                                                 *)
(***************************************************************************)
\* the vertical velocity Player.update moves with
TickVelY == IF player.onGround /\ player.input.space THEN jumpForce
            ELSE player.velY + gravity

\* C8: in one Player.update tick y changes, to y + velY, only if the voxels
\* at floor(y + velY) and at floor(y + velY + 1.7), at the x and z the tick
\* has resolved, are both empty; otherwise y is unchanged, velY becomes 0 and
\* the player is on the ground when velY was negative.  A player at rest at
\* y = 33 on a block at level 32, with no jump input, keeps its y and is on
\* the ground after the tick.
C8_VerticalCollision ==
  [][ last'.op = "update" =>
        LET newY == player.y + TickVelY
            free == /\ getBlock(chunks, Floor(player'.x), Floor(newY),
                                Floor(player'.z)) = AIR
                    /\ getBlock(chunks, Floor(player'.x), Floor(newY + HeadHeight),
                                Floor(player'.z)) = AIR
        IN  /\ player'.y # player.y => (free /\ player'.y = newY)
            /\ ~free => /\ player'.y = player.y
                        /\ player'.velY = 0
                        /\ TickVelY < 0 => player'.onGround
            /\ ( /\ player.y = 33 * Unit
                 /\ player.velY = 0
                 /\ ~player.input.space
                 /\ getBlock(chunks, Floor(player'.x), 32, Floor(player'.z)) # AIR )
                 => (player'.y = player.y /\ player'.onGround) ]_vars

\* a tick that started at rest at y = 33 on the block at level 32, after a
\* fall from y = 40
C8_Witness ==
  /\ last.op = "update"
  /\ last.y = 33 * Unit
  /\ last.k = 0
  /\ player.y = 33 * Unit
  /\ player.velY = 0
  /\ player.onGround
  /\ ~player.input.space
  /\ getBlock(chunks, Floor(player.x), 32, Floor(player.z)) # AIR
  /\ getBlock(chunks, Floor(player.x), 33, Floor(player.z)) = AIR

\* C9: Player.update, Player.raycast, getBlock and buildChunkMeshes leave the
\* kind getBlock returns at every coordinate: each chunk keeps its voxels, a
\* chunk the call allocates is empty, and no built section loses its built
\* flag.
C9_ReadersPure ==
  [][ last'.op \in {"update", "raycast", "getBlock", "buildChunkMeshes"} =>
        /\ DOMAIN chunks \subseteq DOMAIN chunks'
        /\ \A k \in DOMAIN chunks' : ChunkBlocks(chunks', k) = ChunkBlocks(chunks, k)
        /\ \A c \in PlayerReads \cup { <<0, 41, 0>>, <<-1, 32, 0>>, <<0, 128, 0>>, <<0, -1, 0>> } :
             getBlock(chunks', c[1], c[2], c[3]) = getBlock(chunks, c[1], c[2], c[3])
        /\ \A k \in DOMAIN chunks : \A i \in DOMAIN chunks[k] :
             chunks[k][i].mesh => chunks'[k][i].mesh ]_vars

\* a ray that hit the block over the player, after a tick of the player, a
\* getBlock that allocated chunk (0, -1) and a build of chunk (0, 0)
C9_Witness ==
  /\ last.op = "raycast"
  /\ last.ret = STONE
  /\ <<last.x, last.y, last.z>> = <<0, 41, 1>>
  /\ player.y < 40 * Unit
  /\ <<0, -1>> \in DOMAIN chunks
  /\ ChunkBlocks(chunks, <<0, -1>>) = ChunkBlocks(<< >>, <<0, -1>>)
  /\ \A i \in DOMAIN chunks[<<0, 0>>] : chunks[<<0, 0>>][i].mesh
  /\ getBlock(chunks, 0, 32, 0) = GRASS

(***************************************************************************)
(* Claims about Player.raycast                                             *)
(***************************************************************************)
\* the cell of the point eye + i * 0.1 * direction
RaySample(i) ==
  LET d == getDirection(player)
  IN  << (player.x * 10 + i * Round(d[1], Unit)) \div (10 * Unit),
         ((player.y + CameraHeight) * 10 + i * Round(d[2], Unit)) \div (10 * Unit),
         (player.z * 10 + i * Round(d[3], Unit)) \div (10 * Unit) >>

\* the samples of a ray of n steps that lie in a voxel that is not empty
RayHits(n) ==
  { i \in 1..n : getBlock(chunks, RaySample(i)[1], RaySample(i)[2], RaySample(i)[3]) # AIR }

\* C11: Player.raycast(maxDist) returns the cell and the kind of the first of
\* the samples eye + i * 0.1 * direction, i = 1 .. maxDist * 10, whose voxel
\* is not empty, and null when every sample lies in an empty voxel; the kind
\* of a result is never 0.
C11_Raycast ==
  [][ last'.op = "raycast" =>
        LET hits == RayHits(last'.k * 10)
            first == CHOOSE i \in hits : \A j \in hits : i <= j
        IN  IF hits = {}
            THEN <<last'.x, last'.y, last'.z, last'.ret>> = <<0, 0, 0, 0>>
            ELSE /\ <<last'.x, last'.y, last'.z>> = RaySample(first)
                 /\ last'.ret = getBlock(chunks, last'.x, last'.y, last'.z)
                 /\ last'.ret # 0 ]_vars

\* the player at spawn facing +Z, a wall 3 cells away and empty cells in
\* between: raycast(5) returned the wall cell and its kind
C11_Witness ==
  /\ last.op = "raycast"
  /\ last.k = 5
  /\ player.yaw = 0 /\ player.pitch = 0
  /\ Floor(player.z) = 0
  /\ <<last.x, last.y, last.z>> = <<0, 41, 3>>
  /\ last.ret = STONE
  /\ \A z \in 0..2 : getBlock(chunks, 0, 41, z) = AIR

\* a ray that found no block: raycast(2) towards the wall 3 cells away
C11_WitnessNull ==
  /\ last.op = "raycast"
  /\ last.k = 2
  /\ last.ret = 0
  /\ getBlock(chunks, 0, 41, 3) = STONE
  /\ player.yaw = 0 /\ player.pitch = 0

\* C13: in a Player.update tick the X move is accepted exactly when the voxel
\* at (floor(x + velX), floor(y), floor(z)) is empty, y and z being the
\* values at the start of the tick.
C13_XResolution ==
  [][ last'.op = "update" =>
        LET newX == player.x + player'.velX
        IN  player'.x = IF getBlock(chunks, Floor(newX), Floor(player.y),
                                    Floor(player.z)) = AIR
                        THEN newX ELSE player.x ]_vars

\* C14: in a Player.update tick the Z move is accepted exactly when the voxel
\* at the x the tick has resolved, the feet level and floor(z + velZ) is
\* empty: the axes are resolved X, then Z, then Y, each on the result of the
\* one before.
C14_AxisOrder ==
  [][ last'.op = "update" =>
        LET newZ == player.z + player'.velZ
            feet == Floor(player.y + TickVelY)
        IN  player'.z = IF getBlock(chunks, Floor(player'.x), feet, Floor(newZ)) = AIR
                        THEN newZ ELSE player.z ]_vars

C16_SpawnGrounded == (last.op = "none" /\ count = NoCount) => player.onGround

\* C19: in a world that no call changes, the voxel that holds the player's
\* feet, empty at spawn, is empty after every tick.
C19_FeetFree ==
  getBlock(chunks, Floor(player.x), Floor(player.y), Floor(player.z)) = AIR

(***************************************************************************)
(* Claims about the mesher                                                 *)
(***************************************************************************)
\* C12: a block whose kind has no entry in BlockNames (10..255) gets no
\* geometry when its section is built: no quad of the section's buffer
\* belongs to its cell.
C12_UnregisteredNoGeometry ==
  [][ last'.op = "buildChunkMeshes"
        => LET key == <<last'.x, last'.z>> IN
           \A i \in dirtySections(chunks, key[1], key[2]) :
             \A c \in BlockCells :
               (CellSection(c[1], c[2], c[3]) = <<key, i>>
                  /\ getBlock(chunks', c[1], c[2], c[3]) \in 10..255)
                 => QuadsAt(chunks', glBuffers', key, i, c) = {} ]_vars

\* position n of the six vertices of the floats v of a face
VertexPos(v, n) == <<v[6 * (n - 1) + 1], v[6 * (n - 1) + 2], v[6 * (n - 1) + 3]>>

\* (p1 - p0) x (p2 - p0)
TriangleNormal(p0, p1, p2) ==
  LET a == <<p1[1] - p0[1], p1[2] - p0[2], p1[3] - p0[3]>>
      b == <<p2[1] - p0[1], p2[2] - p0[2], p2[3] - p0[3]>>
  IN  <<a[2] * b[3] - a[3] * b[2], a[3] * b[1] - a[1] * b[3], a[1] * b[2] - a[2] * b[1]>>

\* the outward normal of a face name
OutwardNormal(face) ==
  LET f == CHOOSE g \in DOMAIN faces : faces[g][1] = face
  IN  <<faces[f][2], faces[f][3], faces[f][4]>>

\* every quad cached in a buffer
CachedQuads == UNION { glBuffers[i] : i \in DOMAIN glBuffers }

\* C17: both triangles of every face the mesher emits are counter-clockwise
\* seen from outside the block: (p1 - p0) x (p2 - p0) is the outward normal of
\* the face (+Y top, -Y bottom, -Z north, +Z south, -X west, +X east).
C17_Winding ==
  \A q \in CachedQuads :
    \A t \in {0, 3} :
      TriangleNormal(VertexPos(quadVerts(q), t + 1), VertexPos(quadVerts(q), t + 2),
                     VertexPos(quadVerts(q), t + 3))
        = OutwardNormal(q[1])

\* C18: an emitted face whose tile has u0 # u1 and v0 # v1 carries both u
\* values and both v values of the four corner pairs Textures.getUV returns
\* for it, [u0,v0, u1,v0, u1,v1, u0,v1].
C18_UVSpan ==
  \A q \in CachedQuads :
    LET uv == getUV(BlockNames(q[5]), faceClass(q[1]))
        v == quadVerts(q)
    IN  (uv[1] # uv[3] /\ uv[2] # uv[6])
          => /\ { v[6 * (n - 1) + 4] : n \in 1..6 } = {uv[1], uv[3]}
             /\ { v[6 * (n - 1) + 5] : n \in 1..6 } = {uv[2], uv[6]}

(***************************************************************************)
(* Claims about the generated terrain                                      *)
(***************************************************************************)
\* C20: after generateChunk(cx, cz) every cell of the chunk with
\* 0 <= y <= 32 holds a kind that is not empty.
C20_NoHole ==
  [][ last'.op = "generateChunk" =>
        \A x \in 0..15, z \in 0..15, y \in 0..32 :
          getBlock(chunks', last'.x * 16 + x, y, last'.z * 16 + z) # AIR ]_vars

(***************************************************************************)
(* Claims about block placement                                            *)
(***************************************************************************)
\* the cells around cell c, c included
Near(c) == { <<c[1] + d[1], c[2] + d[2], c[3] + d[3]>> : d \in (-1..1) \X (-1..1) \X (-1..1) }

\* C21: a right click whose raycast hit a block changes only a cell that was
\* empty before the click and shares a face with the hit block, to the kind
\* selected in the hotbar.
C21_PlaceAdjacent ==
  [][ (last'.op = "mousedown" /\ last'.k = 2 /\ last'.ret # 0) =>
        LET hit == <<last'.x, last'.y, last'.z>>
        IN  \A c \in Near(hit) :
              getBlock(chunks', c[1], c[2], c[3]) # getBlock(chunks, c[1], c[2], c[3])
                => /\ getBlock(chunks, c[1], c[2], c[3]) = AIR
                   /\ Abs(c[1] - hit[1]) + Abs(c[2] - hit[2]) + Abs(c[3] - hit[3]) = 1
                   /\ getBlock(chunks', c[1], c[2], c[3]) = hotbarItems[ui.selectedBlock] ]_vars

====
